---- MODULE Spec2Model ----
(***************************************************************************)
(* A model of bot.py: the Base wallet tracker bot.  One chat update is     *)
(* handled at a time (requests share no state).  Text is modelled as a     *)
(* sequence of one-character strings so that strip(), lower() and the      *)
(* wallet regular expression are computed character by character.          *)
(***************************************************************************)
EXTENDS Integers, Sequences, FiniteSets, TLC

\* ------------------------------------------------------------------ bounds
\* Longest freely chosen part of a transfer list.
MaxFree == 2
\* Largest number of single-transfer tokens added around the free part.
MaxPad == 8
\* Longest freely chosen part of a pair list.
MaxFreePairs == 2
\* Largest number of equal-volume "base" pairs added around the free part.
MaxPadPairs == 10

\* ------------------------------------------------------- program constants
\* {40} of the wallet regular expression.
HexLen == 40
\* [:8] of the ranked summaries.
MaxSummaries == 8
\* [:10] of the trending pairs.
TopN == 10

\* ------------------------------------------------------------ text helpers
HexChars ==
  {"0", "1", "2", "3", "4", "5", "6", "7", "8", "9",
   "a", "b", "c", "d", "e", "f", "A", "B", "C", "D", "E", "F"}

Whitespace == {" ", "\t", "\n"}

\* str.lower() on one character.
LowerChar(c) ==
  CASE c = "A" -> "a" [] c = "B" -> "b" [] c = "C" -> "c" [] c = "D" -> "d"
    [] c = "E" -> "e" [] c = "F" -> "f" [] c = "X" -> "x" [] OTHER -> c

\* str.lower()
Lower(s) == [k \in 1..Len(s) |-> LowerChar(s[k])]

\* str.strip(): drop leading and trailing whitespace.
Strip(s) ==
  LET keep == {k \in 1..Len(s) : s[k] \notin Whitespace}
  IN IF keep = {} THEN <<>>
     ELSE LET lo == CHOOSE k \in keep : \A j \in keep : k <= j
              hi == CHOOSE k \in keep : \A j \in keep : k >= j
          IN SubSeq(s, lo, hi)

\* dict.get(key, default)
Get(d, key, default) == IF key \in DOMAIN d THEN d[key] ELSE default

Take(s, n) == SubSeq(s, 1, IF Len(s) < n THEN Len(s) ELSE n)

Reverse(s) == [k \in 1..Len(s) |-> s[Len(s) + 1 - k]]

Rep(x, n) == [k \in 1..n |-> x]

SeqsUpTo(S, n) == UNION {[1..k -> S] : k \in 0..n}

\* ------------------------------------------------------- wallet validation
\* [a-fA-F0-9]{n} starting at position p: the position after the run, 0 on
\* a mismatch.
RECURSIVE MatchHexRun(_, _, _)
MatchHexRun(s, p, n) ==
  IF n = 0 THEN p
  ELSE IF p <= Len(s) /\ s[p] \in HexChars THEN MatchHexRun(s, p + 1, n - 1)
  ELSE 0

\* A variant of the pattern without the end anchor.
IsWalletAddressNoAnchor(s) ==
  /\ Len(s) >= 2
  /\ s[1] = "0"
  /\ s[2] = "x"
  /\ MatchHexRun(s, 3, HexLen) # 0

\* re.match(r"^0x[a-fA-F0-9]{40}$", s): "$" matches at the end of the text
\* and also just before a final newline.
IsWalletAddress(s) ==
  /\ Len(s) >= 2
  /\ s[1] = "0"
  /\ s[2] = "x"
  /\ LET p == MatchHexRun(s, 3, HexLen)
     IN /\ p # 0
        /\ \/ p = Len(s) + 1
           \/ p = Len(s) /\ s[p] = "\n"

\* ------------------------------------------------------------ chat updates
ValidAddr ==
  <<"0", "x", "d", "8", "d", "A", "6", "B", "F", "2", "6", "9", "6", "4",
    "a", "F", "9", "D", "7", "e", "E", "d", "9", "e", "0", "3", "E", "5",
    "3", "4", "1", "5", "D", "3", "7", "a", "A", "9", "6", "0", "4", "5">>

OtherAddr == <<"0", "x">> \o Rep("b", HexLen)

\* Free-text messages a user may send.
Texts ==
  { ValidAddr,
    <<" ", "\t">> \o ValidAddr \o <<"\n">>,
    <<"0", "x", "1", "2", "3">>,
    <<"n", "o", "t", "-", "a", "n", "-", "a", "d", "d", "r", "e", "s", "s">>,
    <<"0", "x">> \o Rep("a", HexLen + 1),
    <<"0", "x">> \o Rep("a", HexLen - 1),
    <<"0", "X">> \o Rep("a", HexLen),
    <<"0", "x">> \o Rep("a", HexLen - 1) \o <<"g">>,
    <<"0", "x">> \o Rep("a", HexLen) \o <<" ", "h", "i">>,
    <<"h", "i", " ">> \o ValidAddr,
    SubSeq(ValidAddr, 1, 20) \o <<"\n">> \o SubSeq(ValidAddr, 21, 42),
    <<" ">>,
    <<>> }

Commands == {"/start", "/help", "/trending"}

\* The updates the dispatcher hands to a handler: a command, or non-command
\* text.
Updates ==
  {[command |-> c, text |-> <<>>] : c \in Commands}
    \cup {[command |-> "", text |-> t] : t \in Texts}

NoUpdate == [command |-> "", text |-> <<>>]

\* ------------------------------------------------------ upstream responses
\* Price endpoint: "error" is any exception inside the try block.
PriceResponses ==
  { [kind |-> "error", usd |-> 0],
    [kind |-> "missing_field", usd |-> 0],
    [kind |-> "ok", usd |-> 3000] }

get_eth_price(resp) == IF resp.kind = "ok" THEN resp.usd ELSE 0

\* Balance endpoint.  Amounts are written in units of 10^17 wei (25 is
\* 2.5 ETH); the quotient balance_wei / 10**18 is zero exactly when
\* balance_wei is, so the model keeps the numerator.  "message" is a result
\* that int() cannot parse.
BalanceResponses ==
  { [kind |-> "error", result |-> 0],
    [kind |-> "missing_field", result |-> 0],
    [kind |-> "message", result |-> 0],
    [kind |-> "ok", result |-> 0],
    [kind |-> "ok", result |-> 25] }

get_eth_balance(resp) == IF resp.kind = "ok" THEN resp.result ELSE 0

\* Values of token_txns: a list of transfer records, or the text of an
\* explorer error payload ("result": "Invalid API Key").
PyList(items) == [type |-> "list", items |-> items]

PyStr == [type |-> "str", items |-> <<>>]

\* Truth value of a list or of a non-empty text.
Truthy(v) == IF v.type = "list" THEN v.items # <<>> ELSE TRUE

TokenSymbols == [a \in {"0xtokA", "0xtokB"} |-> IF a = "0xtokA" THEN "AAA" ELSE "BBB"]

TxTo(addr, sym, to) ==
  [contractAddress |-> addr, tokenSymbol |-> sym, tokenName |-> sym,
   tokenDecimal |-> 2, value |-> 300, to |-> to]

TxNoTo(addr, sym) ==
  [contractAddress |-> addr, tokenSymbol |-> sym, tokenName |-> sym,
   tokenDecimal |-> 2, value |-> 300]

\* Transfer records chosen freely: two tokens; received by the wallet
\* (written in checksum case), received by another address, or without "to".
FreeTxs ==
  UNION { { TxTo(a, TokenSymbols[a], ValidAddr),
            TxTo(a, TokenSymbols[a], OtherAddr),
            TxNoTo(a, TokenSymbols[a]) } : a \in DOMAIN TokenSymbols }

PadAddrs ==
  <<"0xp01", "0xp02", "0xp03", "0xp04", "0xp05", "0xp06", "0xp07", "0xp08",
    "0xp09", "0xp10", "0xp11", "0xp12">>

\* n transfers of n further tokens, one each, received by the wallet.
PadTxs(n) == [k \in 1..n |-> TxTo(PadAddrs[k], "PAD", Lower(ValidAddr))]

\* No padding, or enough of it to bring the number of tokens to just below,
\* exactly, and above the length of the ranked list.
PadSizes == {0} \cup {n \in 0..MaxPad : n >= MaxPad - 1}

TxLists ==
  { IF padFirst THEN PadTxs(n) \o f ELSE f \o PadTxs(n) :
      f \in SeqsUpTo(FreeTxs, MaxFree), n \in PadSizes, padFirst \in BOOLEAN }

\* Transfer-history endpoint.  "non_2xx" stands for an error page whose body
\* is not JSON; "error_payload" is a JSON object whose "result" is a message.
TxnResponses ==
  {[kind |-> k, result |-> <<>>] :
     k \in {"network_error", "non_2xx", "malformed_json", "missing_field",
            "error_payload"}}
    \cup {[kind |-> "ok", result |-> l] : l \in TxLists}

get_token_transactions(resp) ==
  CASE resp.kind \in {"network_error", "non_2xx", "malformed_json"} -> PyList(<<>>)
    [] resp.kind = "missing_field" -> PyList(<<>>)
    [] resp.kind = "error_payload" -> PyStr
    [] OTHER -> PyList(resp.result)

\* Pair-lookup endpoint: None on an exception or an empty "pairs".
NoTokenInfo == [present |-> FALSE, symbol |-> ""]

TokenInfoResponses(token_address) ==
  { [kind |-> "error", symbol |-> ""],
    [kind |-> "no_pairs", symbol |-> ""],
    [kind |-> "ok", symbol |-> token_address] }

get_token_info(resp) ==
  IF resp.kind = "ok" THEN [present |-> TRUE, symbol |-> resp.symbol]
  ELSE NoTokenInfo

\* ---------------------------------------------------- activity aggregation
RECURSIVE Pow10(_)
Pow10(n) == IF n = 0 THEN 1 ELSE 10 * Pow10(n - 1)

\* int(value) / (10 ** decimals); the inputs are chosen so that it is exact.
AdjustedValue(tx) ==
  Get(tx, "value", 0) \div Pow10(Get(tx, "tokenDecimal", 18))

\* A variant that compares "to" with the wallet as written.
IsBuyCaseSensitive(tx, w) == Get(tx, "to", <<>>) = w

\* is_buy = tx.get("to", "").lower() == wallet.lower()
IsBuy(tx, w) == Lower(Get(tx, "to", <<>>)) = Lower(w)

NewSummary(tx) ==
  [symbol |-> Get(tx, "tokenSymbol", "???"),
   name |-> Get(tx, "tokenName", "Unknown"),
   address |-> Get(tx, "contractAddress", ""),
   buys |-> 0, sells |-> 0, buy_amount |-> 0, sell_amount |-> 0]

\* tokens_seen is a dict, which keeps its keys in insertion order: a
\* sequence of summaries with distinct addresses.
HasToken(seen, a) == \E k \in 1..Len(seen) : seen[k].address = a

Count(summary, tx, w) ==
  IF IsBuy(tx, w)
  THEN [summary EXCEPT !.buys = @ + 1, !.buy_amount = @ + AdjustedValue(tx)]
  ELSE [summary EXCEPT !.sells = @ + 1, !.sell_amount = @ + AdjustedValue(tx)]

\* A variant that creates the summary of a new token without counting the
\* transfer that introduced it.
FoldTxSkipFirst(seen, tx, w) ==
  LET a == Get(tx, "contractAddress", "")
  IN IF HasToken(seen, a)
     THEN [k \in 1..Len(seen) |->
             IF seen[k].address = a THEN Count(seen[k], tx, w) ELSE seen[k]]
     ELSE Append(seen, NewSummary(tx))

\* One iteration of the loop over token_txns.
FoldTx(seen, tx, w) ==
  LET a == Get(tx, "contractAddress", "")
      seen1 == IF HasToken(seen, a) THEN seen ELSE Append(seen, NewSummary(tx))
  IN [k \in 1..Len(seen1) |->
        IF seen1[k].address = a THEN Count(seen1[k], tx, w) ELSE seen1[k]]

Activity(token) == token.buys + token.sells

\* sorted(..., key=buys+sells, reverse=True): a stable sort, so summaries
\* with equal keys keep their relative order.
RECURSIVE SortedByActivity(_)
SortedByActivity(seq) ==
  IF seq = <<>> THEN <<>>
  ELSE LET x == seq[Len(seq)]
           rest == SortedByActivity(SubSeq(seq, 1, Len(seq) - 1))
           p == Cardinality({k \in 1..Len(rest) : Activity(rest[k]) >= Activity(x)})
       IN SubSeq(rest, 1, p) \o <<x>> \o SubSeq(rest, p + 1, Len(rest))

\* A variant whose ties come out in reverse order of first appearance.
RankTokensTiesReversed(seen) == Take(SortedByActivity(Reverse(seen)), MaxSummaries)

\* sorted(tokens_seen.values(), ...)[:8]
RankTokens(seen) == Take(SortedByActivity(seen), MaxSummaries)

Classify(token) ==
  IF token.buys > token.sells THEN "BUYING"
  ELSE IF token.sells > token.buys THEN "SELLING"
  ELSE "MIXED"

\* The parts of the report text, in order.
Line(kind) ==
  [kind |-> kind, symbol |-> "", action |-> "", buys |-> 0, sells |-> 0,
   address |-> ""]

TokenLine(token) ==
  [kind |-> "token", symbol |-> token.symbol, action |-> Classify(token),
   buys |-> token.buys, sells |-> token.sells, address |-> token.address]

TopTradedLine(info) == [Line("top_traded") EXCEPT !.symbol = info.symbol]

\* A variant of the early return that needs only one of the two conditions.
IsNoActivityEither(txns, balance) == ~Truthy(txns) \/ balance = 0

\* if not token_txns and eth_balance == 0
IsNoActivity(txns, balance) == ~Truthy(txns) /\ balance = 0

\* A variant that takes the last ranked summary instead of the first.
TopTokenLast(ranked) == ranked[Len(ranked)].address

\* top_token = sorted_tokens[0]; its address is the lookup's argument.
TopToken(ranked) == ranked[1].address

\* ------------------------------------------------------ trending pairs
Num(n) == [t |-> "number", n |-> n]

Null == [t |-> "null", n |-> 0]

Unparseable == [t |-> "text", n |-> 0]

Pair(chain, h24) == [chainId |-> chain, h24 |-> h24]

PairNoVolume(chain) == [chainId |-> chain]

\* Pair records chosen freely.  h24 stands for volume.h24; a record without
\* the field has no volume.
FreePairs ==
  { Pair("base", Num(10)), Pair("base", Num(50)), PairNoVolume("base"),
    Pair("base", Null), Pair("base", Unparseable),
    Pair("ethereum", Num(50)), Pair("ethereum", Unparseable),
    Pair("Base", Num(50)), [h24 |-> Num(50)] }

PadPairs(n) == Rep(Pair("base", Num(30)), n)

\* Each pair carries its position in the response as pairAddress.
Numbered(pairs) ==
  [k \in 1..Len(pairs) |-> [pairAddress |-> k] @@ pairs[k]]

PadPairSizes == {0} \cup {n \in 0..MaxPadPairs : n >= MaxPadPairs - 1}

PairLists ==
  { Numbered(IF padFirst THEN PadPairs(n) \o f ELSE f \o PadPairs(n)) :
      f \in SeqsUpTo(FreePairs, MaxFreePairs), n \in PadPairSizes,
      padFirst \in BOOLEAN }

SearchResponses ==
  {[kind |-> k, pairs |-> <<>>] : k \in {"error", "missing_field"}}
    \cup {[kind |-> "ok", pairs |-> l] : l \in PairLists}

IsBasePair(p) == Get(p, "chainId", "") = "base"

\* float(x.get("volume", {}).get("h24", 0) or 0) raises on text that is no
\* number.
VolumeRaises(p) == Get(p, "h24", Num(0)).t = "text"

VolumeKey(p) ==
  LET v == Get(p, "h24", Num(0)) IN IF v.t = "number" THEN v.n ELSE 0

RECURSIVE SortedByVolume(_)
SortedByVolume(seq) ==
  IF seq = <<>> THEN <<>>
  ELSE LET x == seq[Len(seq)]
           rest == SortedByVolume(SubSeq(seq, 1, Len(seq) - 1))
           p == Cardinality({k \in 1..Len(rest) : VolumeKey(rest[k]) >= VolumeKey(x)})
       IN SubSeq(rest, 1, p) \o <<x>> \o SubSeq(rest, p + 1, Len(rest))

\* The whole try block: any exception, the sort key's included, returns [].
get_trending_base(resp) ==
  IF resp.kind = "error" THEN <<>>
  ELSE LET base_pairs == SelectSeq(resp.pairs, IsBasePair)
       IN IF \E k \in 1..Len(base_pairs) : VolumeRaises(base_pairs[k])
          THEN <<>>
          ELSE Take(SortedByVolume(base_pairs), TopN)

\* ------------------------------------------------------------------- state
VARIABLES
  update,        \* the chat update being handled
  pc,            \* the handler's position
  text,          \* handle_message: the stripped message text
  wallet,        \* format_wallet_analysis: its argument
  eth_price,     \* format_wallet_analysis locals
  eth_balance,
  txn_kind,      \* what the transfer-history endpoint answered
  token_txns,
  idx,           \* number of loop iterations completed
  tokens_seen,
  sorted_tokens, \* bound is FALSE until the local is assigned
  msg,
  search,        \* what the pair-search endpoint answered
  trending,      \* get_trending_base's return value
  calls,         \* the upstream requests issued for this update
  replies,       \* the messages sent back for this update
  outcome        \* how the handler ended

vars ==
  <<update, pc, text, wallet, eth_price, eth_balance, txn_kind, token_txns,
    idx, tokens_seen, sorted_tokens, msg, search, trending, calls, replies,
    outcome>>

Unbound == [bound |-> FALSE, val |-> <<>>]

Bound(v) == [bound |-> TRUE, val |-> v]

Call(fn, token) == [fn |-> fn, token |-> token]

NoSearch == [kind |-> "none", pairs |-> <<>>]

Init ==
  /\ update = NoUpdate
  /\ pc = "idle"
  /\ text = <<>>
  /\ wallet = <<>>
  /\ eth_price = 0
  /\ eth_balance = 0
  /\ txn_kind = "none"
  /\ token_txns = PyList(<<>>)
  /\ idx = 0
  /\ tokens_seen = <<>>
  /\ sorted_tokens = Unbound
  /\ msg = <<>>
  /\ search = NoSearch
  /\ trending = <<>>
  /\ calls = <<>>
  /\ replies = <<>>
  /\ outcome = "none"

\* ----------------------------------------------------------------- actions
\* main(): the handlers registered for /start, /help, /trending and for
\* non-command text.
Dispatch ==
  /\ pc = "idle"
  /\ \E u \in Updates :
       /\ update' = u
       /\ pc' = CASE u.command = "/start" -> "start_command"
                  [] u.command = "/help" -> "help_command"
                  [] u.command = "/trending" -> "trending_command"
                  [] OTHER -> "handle_message"
  /\ UNCHANGED <<text, wallet, eth_price, eth_balance, txn_kind, token_txns,
                 idx, tokens_seen, sorted_tokens, msg, search, trending,
                 calls, replies, outcome>>

StartCommand ==
  /\ pc = "start_command"
  /\ replies' = Append(replies, "welcome")
  /\ outcome' = "welcome"
  /\ pc' = "done"
  /\ UNCHANGED <<update, text, wallet, eth_price, eth_balance, txn_kind,
                 token_txns, idx, tokens_seen, sorted_tokens, msg, search,
                 trending, calls>>

HelpCommand ==
  /\ pc = "help_command"
  /\ pc' = "start_command"
  /\ UNCHANGED <<update, text, wallet, eth_price, eth_balance, txn_kind,
                 token_txns, idx, tokens_seen, sorted_tokens, msg, search,
                 trending, calls, replies, outcome>>

\* trending_command up to the call of format_trending.
TrendingCommand ==
  /\ pc = "trending_command"
  /\ replies' = Append(replies, "fetching_trending")
  /\ pc' = "get_trending_base"
  /\ UNCHANGED <<update, text, wallet, eth_price, eth_balance, txn_kind,
                 token_txns, idx, tokens_seen, sorted_tokens, msg, search,
                 trending, calls, outcome>>

GetTrendingBase ==
  /\ pc = "get_trending_base"
  /\ \E resp \in SearchResponses :
       /\ search' = resp
       /\ trending' = get_trending_base(resp)
  /\ calls' = Append(calls, Call("search_pairs", ""))
  /\ pc' = "format_trending"
  /\ UNCHANGED <<update, text, wallet, eth_price, eth_balance, txn_kind,
                 token_txns, idx, tokens_seen, sorted_tokens, msg, replies,
                 outcome>>

\* format_trending and the reply of trending_command.
FormatTrending ==
  /\ pc = "format_trending"
  /\ outcome' = IF trending = <<>> THEN "trending_failed" ELSE "trending_list"
  /\ replies' = Append(replies, outcome')
  /\ pc' = "done"
  /\ UNCHANGED <<update, text, wallet, eth_price, eth_balance, txn_kind,
                 token_txns, idx, tokens_seen, sorted_tokens, msg, search,
                 trending, calls>>

\* handle_message: strip, match, and either start the analysis or reply with
\* the validation error.
HandleMessage ==
  /\ pc = "handle_message"
  /\ text' = Strip(update.text)
  /\ IF IsWalletAddress(text')
     THEN /\ replies' = Append(replies, "analyzing")
          /\ wallet' = Lower(text')
          /\ pc' = "get_eth_price"
          /\ UNCHANGED outcome
     ELSE /\ replies' = Append(replies, "invalid_address")
          /\ outcome' = "invalid_address"
          /\ pc' = "done"
          /\ UNCHANGED wallet
  /\ UNCHANGED <<update, eth_price, eth_balance, txn_kind, token_txns, idx,
                 tokens_seen, sorted_tokens, msg, search, trending, calls>>

GetEthPrice ==
  /\ pc = "get_eth_price"
  /\ \E resp \in PriceResponses : eth_price' = get_eth_price(resp)
  /\ calls' = Append(calls, Call("get_eth_price", ""))
  /\ pc' = "get_eth_balance"
  /\ UNCHANGED <<update, text, wallet, eth_balance, txn_kind, token_txns, idx,
                 tokens_seen, sorted_tokens, msg, search, trending, replies,
                 outcome>>

GetEthBalance ==
  /\ pc = "get_eth_balance"
  /\ \E resp \in BalanceResponses : eth_balance' = get_eth_balance(resp)
  /\ calls' = Append(calls, Call("get_eth_balance", ""))
  /\ pc' = "get_token_transactions"
  /\ UNCHANGED <<update, text, wallet, eth_price, txn_kind, token_txns, idx,
                 tokens_seen, sorted_tokens, msg, search, trending, replies,
                 outcome>>

GetTokenTransactions ==
  /\ pc = "get_token_transactions"
  /\ \E resp \in TxnResponses :
       /\ txn_kind' = resp.kind
       /\ token_txns' = get_token_transactions(resp)
  /\ calls' = Append(calls, Call("get_token_transactions", ""))
  /\ pc' = "check_activity"
  /\ UNCHANGED <<update, text, wallet, eth_price, eth_balance, idx,
                 tokens_seen, sorted_tokens, msg, search, trending, replies,
                 outcome>>

\* The early return of format_wallet_analysis; handle_message sends what it
\* returns.
CheckActivity ==
  /\ pc = "check_activity"
  /\ IF IsNoActivity(token_txns, eth_balance)
     THEN /\ outcome' = "no_activity"
          /\ replies' = Append(replies, "no_activity")
          /\ pc' = "done"
     ELSE /\ pc' = "fold"
          /\ UNCHANGED <<outcome, replies>>
  /\ UNCHANGED <<update, text, wallet, eth_price, eth_balance, txn_kind,
                 token_txns, idx, tokens_seen, sorted_tokens, msg, search,
                 trending, calls>>

\* One iteration of "for tx in token_txns" over a list.
FoldStep ==
  /\ pc = "fold"
  /\ token_txns.type = "list"
  /\ idx < Len(token_txns.items)
  /\ tokens_seen' = FoldTx(tokens_seen, token_txns.items[idx + 1], wallet)
  /\ idx' = idx + 1
  /\ UNCHANGED <<update, pc, text, wallet, eth_price, eth_balance, txn_kind,
                 token_txns, sorted_tokens, msg, search, trending, calls,
                 replies, outcome>>

\* Iterating over a text yields its characters, and tx.get raises
\* AttributeError, which nothing catches: the handler ends without the
\* second reply.
FoldRaises ==
  /\ pc = "fold"
  /\ token_txns.type = "str"
  /\ outcome' = "AttributeError"
  /\ pc' = "done"
  /\ UNCHANGED <<update, text, wallet, eth_price, eth_balance, txn_kind,
                 token_txns, idx, tokens_seen, sorted_tokens, msg, search,
                 trending, calls, replies>>

\* "Build message": the header with the balance, then either the ranked
\* token lines (which assigns sorted_tokens) or the no-activity line.
Render ==
  /\ pc = "fold"
  /\ token_txns.type = "list"
  /\ idx = Len(token_txns.items)
  /\ IF tokens_seen # <<>>
     THEN LET ranked == RankTokens(tokens_seen)
          IN /\ sorted_tokens' = Bound(ranked)
             /\ msg' = <<Line("balance"), Line("activity_header")>>
                         \o [k \in 1..Len(ranked) |-> TokenLine(ranked[k])]
     ELSE /\ msg' = <<Line("balance"), Line("no_token_activity")>>
          /\ UNCHANGED sorted_tokens
  /\ pc' = "top_traded"
  /\ UNCHANGED <<update, text, wallet, eth_price, eth_balance, txn_kind,
                 token_txns, idx, tokens_seen, search, trending, calls,
                 replies, outcome>>

\* "if sorted_tokens:" when no branch assigned the local: UnboundLocalError,
\* which nothing catches.
TopTradedRaises ==
  /\ pc = "top_traded"
  /\ ~sorted_tokens.bound
  /\ outcome' = "UnboundLocalError"
  /\ pc' = "done"
  /\ UNCHANGED <<update, text, wallet, eth_price, eth_balance, txn_kind,
                 token_txns, idx, tokens_seen, sorted_tokens, msg, search,
                 trending, calls, replies>>

\* The lookup of the most traded token and the line it adds.
TopTraded ==
  /\ pc = "top_traded"
  /\ sorted_tokens.bound
  /\ IF sorted_tokens.val # <<>>
     THEN \E resp \in TokenInfoResponses(TopToken(sorted_tokens.val)) :
            LET token_info == get_token_info(resp)
            IN /\ calls' = Append(calls, Call("get_token_info", TopToken(sorted_tokens.val)))
               /\ msg' = IF token_info.present
                         THEN Append(msg, TopTradedLine(token_info))
                         ELSE msg
     ELSE UNCHANGED <<calls, msg>>
  /\ pc' = "reply_report"
  /\ UNCHANGED <<update, text, wallet, eth_price, eth_balance, txn_kind,
                 token_txns, idx, tokens_seen, sorted_tokens, search,
                 trending, replies, outcome>>

\* return msg, and handle_message's second reply.
ReplyReport ==
  /\ pc = "reply_report"
  /\ outcome' = "report"
  /\ replies' = Append(replies, "report")
  /\ pc' = "done"
  /\ UNCHANGED <<update, text, wallet, eth_price, eth_balance, txn_kind,
                 token_txns, idx, tokens_seen, sorted_tokens, msg, search,
                 trending, calls>>

\* The handler has returned; nothing of the request is kept.
Finish ==
  /\ pc = "done"
  /\ update' = NoUpdate
  /\ pc' = "idle"
  /\ text' = <<>>
  /\ wallet' = <<>>
  /\ eth_price' = 0
  /\ eth_balance' = 0
  /\ txn_kind' = "none"
  /\ token_txns' = PyList(<<>>)
  /\ idx' = 0
  /\ tokens_seen' = <<>>
  /\ sorted_tokens' = Unbound
  /\ msg' = <<>>
  /\ search' = NoSearch
  /\ trending' = <<>>
  /\ calls' = <<>>
  /\ replies' = <<>>
  /\ outcome' = "none"

Next ==
  \/ Dispatch
  \/ StartCommand
  \/ HelpCommand
  \/ TrendingCommand
  \/ GetTrendingBase
  \/ FormatTrending
  \/ HandleMessage
  \/ GetEthPrice
  \/ GetEthBalance
  \/ GetTokenTransactions
  \/ CheckActivity
  \/ FoldStep
  \/ FoldRaises
  \/ Render
  \/ TopTradedRaises
  \/ TopTraded
  \/ ReplyReport
  \/ Finish

Spec == Init /\ [][Next]_vars

\* -------------------------------------------------------------- properties
Min(a, b) == IF a < b THEN a ELSE b

RECURSIVE SumOf(_, _)
SumOf(seq, field) ==
  IF seq = <<>> THEN 0
  ELSE seq[1][field] + SumOf(SubSeq(seq, 2, Len(seq)), field)

AnalysisStarted == replies # <<>> /\ replies[1] = "analyzing"

TokenInfoCalls == {k \in 1..Len(calls) : calls[k].fn = "get_token_info"}

\* The j-th transfer record the loop has consumed (j <= idx).
Folded(j) == token_txns.items[j]

CasePairs ==
  {<<"a", "A">>, <<"b", "B">>, <<"c", "C">>, <<"d", "D">>, <<"e", "E">>,
   <<"f", "F">>, <<"x", "X">>}

\* Two texts that differ at most in the case of their letters.
SameIgnoringCase(a, b) ==
  /\ Len(a) = Len(b)
  /\ \A k \in 1..Len(a) :
       \/ a[k] = b[k]
       \/ <<a[k], b[k]>> \in CasePairs
       \/ <<b[k], a[k]>> \in CasePairs

\* C1: a request with an empty transfer list and a non-zero balance ends
\* with the balance-only report (the balance section and the "no recent
\* token activity" line), neither with the "no activity" message nor with an
\* error.
C1_BalanceOnlyReport ==
  (pc = "done" /\ AnalysisStarted /\ token_txns = PyList(<<>>) /\ eth_balance # 0)
    => /\ outcome = "report"
       /\ msg = <<Line("balance"), Line("no_token_activity")>>

\* C2: every folded record is counted exactly once: per contract address
\* buys+sells is the number of folded records with that address, the total
\* over all summaries is the number of folded records, and the report is
\* built only when the whole list has been folded.
C2_EachRecordCountedOnce ==
  token_txns.type = "list" =>
    /\ \A k \in 1..Len(tokens_seen) :
         Activity(tokens_seen[k]) =
           Cardinality({j \in 1..idx :
                          Folded(j).contractAddress = tokens_seen[k].address})
    /\ \A j \in 1..idx :
         Cardinality({k \in 1..Len(tokens_seen) :
                        tokens_seen[k].address = Folded(j).contractAddress}) = 1
    /\ SumOf(tokens_seen, "buys") + SumOf(tokens_seen, "sells") = idx
    /\ pc \in {"top_traded", "reply_report"} => idx = Len(token_txns.items)

C2_Witness ==
  /\ pc = "reply_report"
  /\ idx = Len(token_txns.items)
  /\ Len(tokens_seen) >= 2
  /\ \E k \in 1..Len(tokens_seen) : Activity(tokens_seen[k]) >= 2

\* C3: whatever way the transfer-history request fails, token_txns is the
\* empty list, so the loop is given a list of records and does not raise.
C3_FailureGivesEmptyList ==
  txn_kind \notin {"none", "ok"}
    => /\ token_txns = PyList(<<>>)
       /\ outcome # "AttributeError"

\* C4: the "no activity" message is returned exactly when the transfer list
\* is empty and the balance is zero; then nothing else is built, and no
\* pair-info fetch is issued.
C4_NoActivityExactly ==
  /\ outcome = "no_activity"
       => /\ token_txns = PyList(<<>>)
          /\ eth_balance = 0
          /\ msg = <<>>
          /\ ~sorted_tokens.bound
          /\ TokenInfoCalls = {}
          /\ replies = <<"analyzing", "no_activity">>
  /\ (pc \in {"fold", "top_traded", "reply_report", "done"} /\ AnalysisStarted
        /\ token_txns = PyList(<<>>) /\ eth_balance = 0)
       => outcome = "no_activity"

C4_Witness ==
  /\ pc = "done"
  /\ outcome = "no_activity"
  /\ txn_kind = "ok"

\* C5: a folded record is a buy exactly when it has a "to" that equals the
\* queried address up to the case of its letters, and a sell otherwise; so
\* when every "to" is the wallet, the buys sum to the number of records and
\* the sells to 0.
C5_BuyIffToIsWallet ==
  (token_txns.type = "list" /\ AnalysisStarted) =>
    LET toWallet(a) ==
          {j \in 1..idx :
             /\ Folded(j).contractAddress = a
             /\ "to" \in DOMAIN Folded(j)
             /\ SameIgnoringCase(Folded(j).to, text)}
        others(a) ==
          {j \in 1..idx : Folded(j).contractAddress = a} \ toWallet(a)
    IN \A k \in 1..Len(tokens_seen) :
         /\ tokens_seen[k].buys = Cardinality(toWallet(tokens_seen[k].address))
         /\ tokens_seen[k].sells = Cardinality(others(tokens_seen[k].address))

C5_Witness ==
  /\ pc = "reply_report"
  /\ idx >= 2
  /\ \A j \in 1..idx :
       "to" \in DOMAIN Folded(j) /\ SameIgnoringCase(Folded(j).to, text)
  /\ \E j \in 1..idx : Folded(j).to # wallet
  /\ \E j \in 1..idx : Folded(j).to = wallet
  /\ SumOf(tokens_seen, "buys") = idx
  /\ SumOf(tokens_seen, "sells") = 0

\* Where a summary stands in tokens_seen, that is, when its contract address
\* first appeared.
FirstSeen(token) ==
  CHOOSE j \in 1..Len(tokens_seen) : tokens_seen[j].address = token.address

\* C6: the ranked summaries are summaries of tokens_seen, at most 8 of them,
\* in non-increasing order of buys+sells, equal counts in order of first
\* appearance; the summaries left out rank after all those kept; the token
\* lines of the report follow that order.
C6_RankedStableTop8 ==
  sorted_tokens.bound =>
    LET r == sorted_tokens.val
    IN /\ Len(r) = Min(Len(tokens_seen), MaxSummaries)
       /\ \A k \in 1..Len(r) : \E j \in 1..Len(tokens_seen) : tokens_seen[j] = r[k]
       /\ \A k, l \in 1..Len(r) :
            k < l =>
              \/ Activity(r[k]) > Activity(r[l])
              \/ Activity(r[k]) = Activity(r[l]) /\ FirstSeen(r[k]) < FirstSeen(r[l])
       /\ \A j \in 1..Len(tokens_seen) :
            (\A k \in 1..Len(r) : r[k] # tokens_seen[j]) =>
              \A k \in 1..Len(r) :
                \/ Activity(r[k]) > Activity(tokens_seen[j])
                \/ Activity(r[k]) = Activity(tokens_seen[j]) /\ FirstSeen(r[k]) < j
       /\ \A k \in 1..Len(r) :
            /\ msg[k + 2].kind = "token"
            /\ msg[k + 2].address = r[k].address

C6_Witness ==
  /\ sorted_tokens.bound
  /\ Len(tokens_seen) > MaxSummaries
  /\ Len(sorted_tokens.val) = MaxSummaries
  /\ sorted_tokens.val # Take(tokens_seen, MaxSummaries)
  /\ \E k \in 1..(MaxSummaries - 1) :
       Activity(sorted_tokens.val[k]) = Activity(sorted_tokens.val[k + 1])

\* The 24-hour volume of a pair, 0 when it is missing, null or no number.
VolumeOrZero(p) ==
  IF "h24" \in DOMAIN p /\ p.h24.t = "number" THEN p.h24.n ELSE 0

BasePairs(pairs) ==
  {k \in 1..Len(pairs) : "chainId" \in DOMAIN pairs[k] /\ pairs[k].chainId = "base"}

\* r is a ranking of the "base" pairs of pairs: the first TopN of them by
\* non-increasing volume.
IsTrendingOf(r, pairs) ==
  /\ Len(r) = Min(Cardinality(BasePairs(pairs)), TopN)
  /\ \A k \in 1..Len(r) : r[k].pairAddress \in BasePairs(pairs) /\ r[k] = pairs[r[k].pairAddress]
  /\ \A k, l \in 1..Len(r) : k # l => r[k].pairAddress # r[l].pairAddress
  /\ \A k \in 1..(Len(r) - 1) : VolumeOrZero(r[k]) >= VolumeOrZero(r[k + 1])
  /\ \A j \in BasePairs(pairs) :
       (\A k \in 1..Len(r) : r[k].pairAddress # j) =>
         \A k \in 1..Len(r) : VolumeOrZero(r[k]) >= VolumeOrZero(pairs[j])

\* C7: for every pair list the search returns, get_trending_base returns
\* exactly its "base" pairs by non-increasing 24-hour volume, cut to the
\* first 10, and the empty sequence when none is a "base" pair.
C7_TrendingFilterSortTop10 ==
  (pc \in {"format_trending", "done"} /\ search.kind = "ok")
    => IsTrendingOf(trending, search.pairs)

\* C8: a "base" pair whose volume is missing or unparseable is ranked with
\* volume 0: it stays in the result (when at most 10 pairs are "base"), and
\* the result is still the ranking of all "base" pairs.
C8_BadVolumeRanksAsZero ==
  (pc \in {"format_trending", "done"} /\ search.kind = "ok") =>
    \A j \in BasePairs(search.pairs) :
      ("h24" \notin DOMAIN search.pairs[j] \/ search.pairs[j].h24.t # "number") =>
        /\ IsTrendingOf(trending, search.pairs)
        /\ Cardinality(BasePairs(search.pairs)) <= TopN
             => \E k \in 1..Len(trending) : trending[k] = search.pairs[j]

\* "0x" followed by exactly 40 hexadecimal characters.
WellFormedAddress(t) ==
  /\ Len(t) = HexLen + 2
  /\ SubSeq(t, 1, 2) = <<"0", "x">>
  /\ \A k \in 3..Len(t) :
       t[k] \in {"0", "1", "2", "3", "4", "5", "6", "7", "8", "9",
                 "a", "b", "c", "d", "e", "f", "A", "B", "C", "D", "E", "F"}

\* t is s without its leading and trailing whitespace.
IsStripped(t, s) ==
  /\ \E lo \in 0..Len(s) :
       /\ lo + Len(t) <= Len(s)
       /\ \A k \in 1..Len(s) :
            IF k > lo /\ k <= lo + Len(t) THEN s[k] = t[k - lo]
            ELSE s[k] \in {" ", "\t", "\n"}
  /\ t # <<>> => t[1] \notin {" ", "\t", "\n"} /\ t[Len(t)] \notin {" ", "\t", "\n"}

\* C9: handle_message starts the analysis exactly when the stripped text is
\* "0x" and 40 hexadecimal characters; for any other text it replies with the
\* validation error and issues no upstream call.
C9_AnalysisIffWalletAddress ==
  (update.command = "" /\ pc \notin {"idle", "handle_message"}) =>
    /\ IsStripped(text, update.text)
    /\ IF WellFormedAddress(text)
       THEN /\ AnalysisStarted
            /\ outcome # "invalid_address"
            /\ SameIgnoringCase(wallet, text)
       ELSE /\ pc = "done"
            /\ replies = <<"invalid_address">>
            /\ calls = <<>>

C9_Witness ==
  /\ pc = "get_eth_price"
  /\ AnalysisStarted
  /\ update.text # text
  /\ wallet # text
  /\ calls = <<>>

\* The summary the pair-info fetch is about: the one with the most buys and
\* sells, the earliest seen of them on a tie.
IsMostActive(a) ==
  \E j \in 1..Len(tokens_seen) :
    /\ tokens_seen[j].address = a
    /\ \A k \in 1..Len(tokens_seen) :
         \/ Activity(tokens_seen[k]) < Activity(tokens_seen[j])
         \/ Activity(tokens_seen[k]) = Activity(tokens_seen[j]) /\ j <= k

\* C10: the pair-info fetch is issued at most once, after the price, balance
\* and transfer-history fetches and after every record has been folded and
\* ranked, for the first ranked summary; with nothing ranked it is not
\* issued and there is no top-traded section; no fetch is repeated.
C10_TopTradedOnceAfterRanking ==
  /\ Cardinality(TokenInfoCalls) <= 1
  /\ \A k, l \in 1..Len(calls) : k # l => calls[k].fn # calls[l].fn
  /\ \A k \in TokenInfoCalls :
       /\ SubSeq(calls, 1, k - 1) =
            <<Call("get_eth_price", ""), Call("get_eth_balance", ""),
              Call("get_token_transactions", "")>>
       /\ token_txns.type = "list"
       /\ idx = Len(token_txns.items)
       /\ sorted_tokens.bound
       /\ sorted_tokens.val # <<>>
       /\ calls[k].token = sorted_tokens.val[1].address
       /\ IsMostActive(calls[k].token)
  /\ (~sorted_tokens.bound \/ sorted_tokens.val = <<>>) =>
       /\ TokenInfoCalls = {}
       /\ \A k \in 1..Len(msg) : msg[k].kind # "top_traded"
  /\ (\E k \in 1..Len(msg) : msg[k].kind = "top_traded") => TokenInfoCalls # {}
  /\ (pc \in {"reply_report", "done"} /\ sorted_tokens.bound) => TokenInfoCalls # {}

C10_Witness ==
  /\ outcome = "report"
  /\ TokenInfoCalls # {}
  /\ Len(tokens_seen) >= 2
  /\ \A k \in TokenInfoCalls : calls[k].token # tokens_seen[1].address
  /\ \E k \in 1..Len(msg) : msg[k].kind = "top_traded"
====
